---------------------------- MODULE Spec2Model ----------------------------
(***************************************************************************)
(* Ecosystem Health Scoring Engine of src/src/aadhaar_analysis.py:         *)
(* aggregation, the five pillar metrics, the composite health score, the   *)
(* archetype cascade and the problem risks.                                *)
(*                                                                         *)
(* Numbers.  Counts are integers.  A pillar metric or a risk is an exact   *)
(* rational <<n, d>> with d > 0, compared by cross multiplication.  The    *)
(* square root of np.std is taken to 1/SqrtScale (floor); the normalised   *)
(* scores and Health_Score are fixed point, in units of 1/ScoreUnit of a   *)
(* point (floor), so that every product stays inside TLC's 32-bit range.   *)
(***************************************************************************)
EXTENDS Integers, Sequences, FiniteSets, TLC

VARIABLES
    pc,             \* position of the run
    enrol,          \* enrolment rows grouped by state (partial function)
    bio,            \* biometric rows grouped by <<state, district, month>>
    demo,           \* demographic rows grouped by <<state, district, month>>
    state_data,     \* aggregate_by_state's table: state -> row
    district_data,  \* aggregate_by_district's table: <<state, district>> -> row
    monthly_data,   \* aggregate_by_month's table: <<state, month>> -> row
    metrics_df,     \* the metrics table main() carries: state -> row
    row,            \* the row handed to classify_archetype
    archetype,      \* classify_archetype's result for row
    values,         \* calculate_gini's argument
    gini,           \* calculate_gini's result
    error,          \* the exception that ended the run, NoError while it runs
    outputs,        \* the files written under outputs/
    enrolment,      \* load_data's enrolment table, a sequence of records
    biometric,      \* load_data's biometric table
    demographic,    \* load_data's demographic table
    data_dir        \* the records of the CSV files under data/, by folder

vars == <<pc, enrol, bio, demo, state_data, district_data, monthly_data,
          metrics_df, row, archetype, values, gini, error, outputs,
          enrolment, biometric, demographic, data_dir>>

\* ------------------------------------------------------------------ bounds

MaxRecords == 4
MaxLen == 3
MaxVal == 4
MaxRawRecords == 2
MaxMainRecords == 3
MaxEnrolment == 2
SqrtScale == 1000
ScoreUnit == 100

\* ------------------------------------------------------------ arithmetic

Abs(x) == IF x < 0 THEN -x ELSE x

RECURSIVE Gcd(_, _)
Gcd(a, b) == IF b = 0 THEN a ELSE Gcd(b, a % b)

\* The rational n/d in lowest terms, with a positive denominator.
R(n, d) ==
    LET s == IF d < 0 THEN -1 ELSE 1
        g == Gcd(Abs(n), Abs(d))
    IN  <<(s * n) \div g, (s * d) \div g>>

RInt(k) == <<k, 1>>
RLess(a, b) == a[1] * b[2] < b[1] * a[2]
RLeq(a, b) == a[1] * b[2] <= b[1] * a[2]
REq(a, b) == a[1] * b[2] = b[1] * a[2]
RAdd(a, b) == R(a[1] * b[2] + b[1] * a[2], a[2] * b[2])
RSub(a, b) == R(a[1] * b[2] - b[1] * a[2], a[2] * b[2])
RMul(a, b) == R(a[1] * b[1], a[2] * b[2])
RDiv(a, b) == R(a[1] * b[2], a[2] * b[1])
RMax(a, b) == IF RLess(a, b) THEN b ELSE a
RMin(a, b) == IF RLess(b, a) THEN b ELSE a
\* Series.clip(lo, hi) / max(lo, min(hi, x))
Clip(x, lo, hi) == RMax(lo, RMin(hi, x))

RECURSIVE SumSeq(_)
SumSeq(s) == IF s = <<>> THEN 0 ELSE Head(s) + SumSeq(Tail(s))

\* ------------------------------------------------------- calculate_gini

\* values[values > 0]
Positive(s) == SelectSeq(s, LAMBDA v : v > 0)

RECURSIVE Insert(_, _)
Insert(v, s) ==
    IF s = <<>> THEN <<v>>
    ELSE IF v <= Head(s) THEN <<v>> \o s
    ELSE <<Head(s)>> \o Insert(v, Tail(s))

\* np.sort: ascending
RECURSIVE Sort(_)
Sort(s) == IF s = <<>> THEN <<>> ELSE Insert(Head(s), Sort(Tail(s)))

\* np.sum(np.arange(1, n+1) * values): 1-based ranks
RankSum(s) == SumSeq([i \in 1..Len(s) |-> i * s[i]])

\* The offset (n - 1) / n in place of (n + 1) / n.
GiniWrongOffset(vals) ==
    LET v == Sort(Positive(vals))
        n == Len(v)
    IN  IF n < 2 THEN RInt(0)
        ELSE Clip(RSub(R(2 * RankSum(v), n * SumSeq(v)), R(n - 1, n)),
                  RInt(0), RInt(1))

\* The ranks taken on the unsorted values.
GiniUnsorted(vals) ==
    LET v == Positive(vals)
        n == Len(v)
    IN  IF n < 2 THEN RInt(0)
        ELSE Clip(RSub(R(2 * RankSum(v), n * SumSeq(v)), R(n + 1, n)),
                  RInt(0), RInt(1))

\* The zeros kept: only the negative entries are removed.
GiniKeepsZeros(vals) ==
    LET v == Sort(SelectSeq(vals, LAMBDA x : x >= 0))
        n == Len(v)
    IN  IF n < 2 \/ SumSeq(v) = 0 THEN RInt(0)
        ELSE Clip(RSub(R(2 * RankSum(v), n * SumSeq(v)), R(n + 1, n)),
                  RInt(0), RInt(1))

calculate_gini(vals) ==
    LET v == Sort(Positive(vals))
        n == Len(v)
    IN  IF n < 2 THEN RInt(0)
        ELSE Clip(RSub(R(2 * RankSum(v), n * SumSeq(v)), R(n + 1, n)),
                  RInt(0), RInt(1))

\* --------------------------------------------------- classify_archetype

AllArchetypes ==
    {"Digital Leader", "Sprinter", "Sleepwalker", "Moderate", "Excluded (Youth)",
     "Excluded (Update Imbalance)", "Excluded (Geographic)"}

\* The cascade with the youth test after the imbalance test.
ClassifyImbalanceFirst(r) ==
    IF RLess(r.UBI, R(25, 100)) \/ RLess(R(65, 100), r.UBI)
        THEN "Excluded (Update Imbalance)"
    ELSE IF RLess(r.YIR, R(6, 10)) THEN "Excluded (Youth)"
    ELSE IF RLess(R(6, 10), r.GCI) THEN "Excluded (Geographic)"
    ELSE IF RLess(r.TCS, R(4, 10)) /\ RLess(r.Health_Score, RInt(40))
        THEN "Sleepwalker"
    ELSE IF /\ RLess(RInt(70), r.Health_Score)
            /\ RLess(R(6, 10), r.TCS)
            /\ RLess(r.GCI, R(4, 10))
            /\ RLess(R(8, 10), r.YIR)
        THEN "Digital Leader"
    ELSE IF RLess(R(3, 100), r.IDI) THEN "Sprinter"
    ELSE "Moderate"

\* The cascade with the leader test moved in front of the exclusions.
ClassifyLeaderFirst(r) ==
    IF /\ RLess(RInt(70), r.Health_Score)
       /\ RLess(R(6, 10), r.TCS)
       /\ RLess(r.GCI, R(4, 10))
       /\ RLess(R(8, 10), r.YIR)
        THEN "Digital Leader"
    ELSE IF RLess(r.YIR, R(6, 10)) THEN "Excluded (Youth)"
    ELSE IF RLess(r.UBI, R(25, 100)) \/ RLess(R(65, 100), r.UBI)
        THEN "Excluded (Update Imbalance)"
    ELSE IF RLess(R(6, 10), r.GCI) THEN "Excluded (Geographic)"
    ELSE IF RLess(r.TCS, R(4, 10)) /\ RLess(r.Health_Score, RInt(40))
        THEN "Sleepwalker"
    ELSE IF RLess(R(3, 100), r.IDI) THEN "Sprinter"
    ELSE "Moderate"

\* The cascade without its default return: the row falls off the end.
ClassifyNoDefault(r) ==
    IF RLess(r.YIR, R(6, 10)) THEN "Excluded (Youth)"
    ELSE IF RLess(r.UBI, R(25, 100)) \/ RLess(R(65, 100), r.UBI)
        THEN "Excluded (Update Imbalance)"
    ELSE IF RLess(R(6, 10), r.GCI) THEN "Excluded (Geographic)"
    ELSE IF RLess(r.TCS, R(4, 10)) /\ RLess(r.Health_Score, RInt(40))
        THEN "Sleepwalker"
    ELSE IF /\ RLess(RInt(70), r.Health_Score)
            /\ RLess(R(6, 10), r.TCS)
            /\ RLess(r.GCI, R(4, 10))
            /\ RLess(R(8, 10), r.YIR)
        THEN "Digital Leader"
    ELSE IF RLess(R(3, 100), r.IDI) THEN "Sprinter"
    ELSE "None"

\* The Sleepwalker rule without its Health_Score test.
ClassifySleepwalkerByTCS(r) ==
    IF RLess(r.YIR, R(6, 10)) THEN "Excluded (Youth)"
    ELSE IF RLess(r.UBI, R(25, 100)) \/ RLess(R(65, 100), r.UBI)
        THEN "Excluded (Update Imbalance)"
    ELSE IF RLess(R(6, 10), r.GCI) THEN "Excluded (Geographic)"
    ELSE IF RLess(r.TCS, R(4, 10)) THEN "Sleepwalker"
    ELSE IF /\ RLess(RInt(70), r.Health_Score)
            /\ RLess(R(6, 10), r.TCS)
            /\ RLess(r.GCI, R(4, 10))
            /\ RLess(R(8, 10), r.YIR)
        THEN "Digital Leader"
    ELSE IF RLess(R(3, 100), r.IDI) THEN "Sprinter"
    ELSE "Moderate"

classify_archetype(r) ==
    IF RLess(r.YIR, R(6, 10)) THEN "Excluded (Youth)"
    ELSE IF RLess(r.UBI, R(25, 100)) \/ RLess(R(65, 100), r.UBI)
        THEN "Excluded (Update Imbalance)"
    ELSE IF RLess(R(6, 10), r.GCI) THEN "Excluded (Geographic)"
    ELSE IF RLess(r.TCS, R(4, 10)) /\ RLess(r.Health_Score, RInt(40))
        THEN "Sleepwalker"
    ELSE IF /\ RLess(RInt(70), r.Health_Score)
            /\ RLess(R(6, 10), r.TCS)
            /\ RLess(r.GCI, R(4, 10))
            /\ RLess(R(8, 10), r.YIR)
        THEN "Digital Leader"
    ELSE IF RLess(R(3, 100), r.IDI) THEN "Sprinter"
    ELSE "Moderate"

\* ------------------------------------------------------------ the input

States == {"A", "B"}
\* The <<state, district, month>> keys of the update rows.
Cells == {<<"A", "d1", 1>>, <<"A", "d2", 2>>, <<"B", "d1", 1>>}

EnrolFields == {"age_0_5", "age_5_17", "age_18_greater"}
BioFields == {"bio_age_5_17", "bio_age_17_"}
DemoFields == {"demo_age_5_17", "demo_age_17_"}

\* A function over a finite set as the sequence of its values.
RECURSIVE Column(_, _)
Column(f, K) ==
    IF K = {} THEN <<>>
    ELSE LET k == CHOOSE x \in K : TRUE
         IN  <<f[k]>> \o Column(f, K \ {k})

\* .sum() of a column over the rows with keys K
Sum(f, K) == SumSeq(Column(f, K))

\* One input row with count c in field fld; preprocess_data adds the total.
EnrolRow(fld, c) ==
    [age_0_5 |-> IF fld = "age_0_5" THEN c ELSE 0,
     age_5_17 |-> IF fld = "age_5_17" THEN c ELSE 0,
     age_18_greater |-> IF fld = "age_18_greater" THEN c ELSE 0,
     total_enrolment |-> c]

BioRow(fld, c) ==
    [bio_age_5_17 |-> IF fld = "bio_age_5_17" THEN c ELSE 0,
     bio_age_17_ |-> IF fld = "bio_age_17_" THEN c ELSE 0,
     total_bio |-> c]

DemoRow(fld, c) ==
    [demo_age_5_17 |-> IF fld = "demo_age_5_17" THEN c ELSE 0,
     demo_age_17_ |-> IF fld = "demo_age_17_" THEN c ELSE 0,
     total_demo |-> c]

\* The rows a stream may hold: one field with a count of 1, and for the
\* update streams also a row of zeros (a state of no enrolment comes from
\* the outer merge of its update rows).
EnrolRows == {EnrolRow(fld, 1) : fld \in EnrolFields}
BioRows == {BioRow(fld, c) : fld \in BioFields, c \in 0..1}
DemoRows == {DemoRow(fld, c) : fld \in DemoFields, c \in 0..1}

\* Adds row r to the group of key k (a new group when k has none).
AddRow(t, k, r) ==
    [x \in DOMAIN t \cup {k} |->
        IF x # k THEN t[x]
        ELSE IF k \in DOMAIN t
            THEN [f \in DOMAIN r |-> t[k][f] + r[f]]
            ELSE r]

\* The fewest input rows, of one count each, that give these groups.
GroupRows(t, tot) ==
    Sum([k \in DOMAIN t |-> IF t[k][tot] = 0 THEN 1 ELSE t[k][tot]], DOMAIN t)

InputRows(e, b, d) ==
    GroupRows(e, "total_enrolment") + GroupRows(b, "total_bio")
        + GroupRows(d, "total_demo")

Empty == [x \in {} |-> 0]

\* ---------------------------------------------------------- aggregation

ZeroEnrol == [age_0_5 |-> 0, age_5_17 |-> 0, age_18_greater |-> 0, total_enrolment |-> 0]
ZeroBio == [bio_age_5_17 |-> 0, bio_age_17_ |-> 0, total_bio |-> 0]
ZeroDemo == [demo_age_5_17 |-> 0, demo_age_17_ |-> 0, total_demo |-> 0]

\* groupby(keys).agg(sum): g maps each row key of t to its group key
GroupBy(t, g, zero) ==
    LET G == {g[k] : k \in DOMAIN t}
    IN  [x \in G |->
            [f \in DOMAIN zero |->
                Sum([k \in DOMAIN t |-> t[k][f]], {k \in DOMAIN t : g[k] = x})]]

\* the grouping keys: 'state', ['state', 'district'], ['state', 'month']
ByState(t) == [k \in DOMAIN t |-> k[1]]
ByDistrict(t) == [k \in DOMAIN t |-> <<k[1], k[2]>>]
ByMonth(t) == [k \in DOMAIN t |-> <<k[1], k[3]>>]
BySelf(t) == [k \in DOMAIN t |-> k]

\* merge(how='inner'): only the keys both tables have.
MergeInner(l, r, lzero, rzero) ==
    [k \in DOMAIN l \cap DOMAIN r |->
        [f \in DOMAIN lzero \cup DOMAIN rzero |->
            IF f \in DOMAIN lzero THEN l[k][f] ELSE r[k][f]]]

\* merge(how='outer') of two keyed tables, then fillna(0)
MergeOuter(l, r, lzero, rzero) ==
    [k \in DOMAIN l \cup DOMAIN r |->
        [f \in DOMAIN lzero \cup DOMAIN rzero |->
            IF f \in DOMAIN lzero
                THEN (IF k \in DOMAIN l THEN l[k][f] ELSE 0)
                ELSE (IF k \in DOMAIN r THEN r[k][f] ELSE 0)]]

WithTotalUpdates(t) ==
    [k \in DOMAIN t |-> [total_updates |-> t[k].total_bio + t[k].total_demo] @@ t[k]]

aggregate_by_state(e, b, d) ==
    LET state_enrol == GroupBy(e, BySelf(e), ZeroEnrol)
        state_bio == GroupBy(b, ByState(b), ZeroBio)
        state_demo == GroupBy(d, ByState(d), ZeroDemo)
        m1 == MergeOuter(state_enrol, state_bio, ZeroEnrol, ZeroBio)
        m2 == MergeOuter(m1, state_demo, [f \in DOMAIN ZeroEnrol \cup DOMAIN ZeroBio |-> 0],
                         ZeroDemo)
    IN  WithTotalUpdates(m2)

TotalsBio == [total_bio |-> 0]
TotalsDemo == [total_demo |-> 0]

\* The two district tables merged on the keys both have.
DistrictsMergedInner(b, d) ==
    WithTotalUpdates(MergeInner(GroupBy(b, ByDistrict(b), TotalsBio),
                                GroupBy(d, ByDistrict(d), TotalsDemo),
                                TotalsBio, TotalsDemo))

aggregate_by_district(b, d) ==
    WithTotalUpdates(MergeOuter(GroupBy(b, ByDistrict(b), TotalsBio),
                                GroupBy(d, ByDistrict(d), TotalsDemo),
                                TotalsBio, TotalsDemo))

aggregate_by_month(b, d) ==
    WithTotalUpdates(MergeOuter(GroupBy(b, ByMonth(b), TotalsBio),
                                GroupBy(d, ByMonth(d), TotalsDemo),
                                TotalsBio, TotalsDemo))

\* ---------------------------------------------------- calculate_metrics

\* state_data[col].sum()
ColumnSum(t, col) == Sum([k \in DOMAIN t |-> t[k][col]], DOMAIN t)

\* table[table['state'] == state]['total_updates'].values
UpdatesOf(t, state) ==
    LET K == {k \in DOMAIN t : k[1] = state}
    IN  Column([k \in K |-> t[k].total_updates], K)

RECURSIVE IsqrtIn(_, _, _)
IsqrtIn(v, lo, hi) ==
    IF lo = hi THEN lo
    ELSE LET mid == (lo + hi + 1) \div 2
         IN  IF mid * mid <= v THEN IsqrtIn(v, mid, hi) ELSE IsqrtIn(v, lo, mid - 1)

\* floor of the square root
Isqrt(v) == IsqrtIn(v, 0, 46340)

np_mean(x) == R(SumSeq(x), Len(x))

\* population standard deviation: sqrt(mean(x^2) - mean(x)^2)
np_std(x) ==
    LET n == Len(x)
        s == SumSeq(x)
        q == SumSeq([i \in 1..n |-> x[i] * x[i]])
    IN  R(Isqrt((n * q - s * s) * SqrtScale * SqrtScale), n * SqrtScale)

\* The youth ratio of the table's first region in place of the national one.
FirstRegionYouthRatio(sd) ==
    LET first == sd[CHOOSE k \in DOMAIN sd : TRUE]
        youth_updates == first.bio_age_5_17 + first.demo_age_5_17
        adult_updates == first.bio_age_17_ + first.demo_age_17_
    IN  IF adult_updates > 0 THEN R(youth_updates, adult_updates) ELSE RInt(0)

national_youth_ratio(sd) ==
    LET national_youth_updates ==
            ColumnSum(sd, "bio_age_5_17") + ColumnSum(sd, "demo_age_5_17")
        national_adult_updates ==
            ColumnSum(sd, "bio_age_17_") + ColumnSum(sd, "demo_age_17_")
    IN  IF national_adult_updates > 0
            THEN R(national_youth_updates, national_adult_updates)
            ELSE RInt(0)

\* The fall-back 1 in place of 0 for a national enrolment total of 0.
EnrolShareFallbackOne(sd, s) ==
    LET national_enrolment == ColumnSum(sd, "total_enrolment")
    IN  IF national_enrolment > 0 THEN R(sd[s].total_enrolment, national_enrolment)
        ELSE RInt(1)

enrol_share(sd, s) ==
    LET national_enrolment == ColumnSum(sd, "total_enrolment")
    IN  IF national_enrolment > 0 THEN R(sd[s].total_enrolment, national_enrolment)
        ELSE RInt(0)

update_share(sd, s) ==
    LET national_updates == ColumnSum(sd, "total_updates")
    IN  IF national_updates > 0 THEN R(sd[s].total_updates, national_updates)
        ELSE RInt(0)

\* The update share taken from the biometric updates only.
IDIBioShare(sd, s) ==
    LET national_updates == ColumnSum(sd, "total_updates")
    IN  RSub(enrol_share(sd, s),
             IF national_updates > 0 THEN R(sd[s].total_bio, national_updates)
             ELSE RInt(0))

IDI(sd, s) == RSub(enrol_share(sd, s), update_share(sd, s))

\* Biometric over demographic updates instead of over all updates.
UBIRatio(sd, s) ==
    IF sd[s].total_demo > 0 THEN R(sd[s].total_bio, sd[s].total_demo) ELSE R(1, 2)

\* The fall-back 0 in place of 0.5 for a region of no updates.
UBIZeroFallback(sd, s) ==
    LET total_updates == sd[s].total_bio + sd[s].total_demo
    IN  IF total_updates > 0 THEN R(sd[s].total_bio, total_updates) ELSE RInt(0)

UBI(sd, s) ==
    LET total_updates == sd[s].total_bio + sd[s].total_demo
    IN  IF total_updates > 0 THEN R(sd[s].total_bio, total_updates) ELSE R(1, 2)

\* 0/0, what an unguarded division by a zero total gives
NaN == <<0, 0>>

\* The division by the national ratio with no test for 0.
YIRNoFallback(sd, s) ==
    LET state_youth == sd[s].bio_age_5_17 + sd[s].demo_age_5_17
        state_adult == sd[s].bio_age_17_ + sd[s].demo_age_17_
        state_youth_ratio ==
            IF state_adult > 0 THEN R(state_youth, state_adult) ELSE RInt(0)
        nyr == national_youth_ratio(sd)
    IN  IF RLess(RInt(0), nyr) THEN RDiv(state_youth_ratio, nyr) ELSE NaN

\* The fall-back 0 in place of 1.0 for a national ratio of 0.
YIRZeroFallback(sd, s) ==
    LET state_youth == sd[s].bio_age_5_17 + sd[s].demo_age_5_17
        state_adult == sd[s].bio_age_17_ + sd[s].demo_age_17_
        state_youth_ratio ==
            IF state_adult > 0 THEN R(state_youth, state_adult) ELSE RInt(0)
        nyr == national_youth_ratio(sd)
    IN  IF RLess(RInt(0), nyr) THEN RDiv(state_youth_ratio, nyr) ELSE RInt(0)

YIR(sd, s) ==
    LET state_youth == sd[s].bio_age_5_17 + sd[s].demo_age_5_17
        state_adult == sd[s].bio_age_17_ + sd[s].demo_age_17_
        state_youth_ratio ==
            IF state_adult > 0 THEN R(state_youth, state_adult) ELSE RInt(0)
        nyr == national_youth_ratio(sd)
    IN  IF RLess(RInt(0), nyr) THEN RDiv(state_youth_ratio, nyr) ELSE RInt(1)

\* The Gini of every district of the table, the state filter left out.
GCIAllDistricts(dd, s) ==
    LET all_districts == Column([k \in DOMAIN dd |-> dd[k].total_updates], DOMAIN dd)
    IN  IF Len(all_districts) > 1 THEN calculate_gini(all_districts) ELSE RInt(0)

GCI(dd, s) ==
    LET state_districts == UpdatesOf(dd, s)
    IN  IF Len(state_districts) > 1 THEN calculate_gini(state_districts) ELSE RInt(0)

\* 1 - cov without the floor at 0.
TCSNoFloor(md, s) ==
    LET state_monthly == UpdatesOf(md, s)
    IN  IF Len(state_monthly) > 1 /\ RLess(RInt(0), np_mean(state_monthly))
            THEN RSub(RInt(1), RDiv(np_std(state_monthly), np_mean(state_monthly)))
            ELSE R(1, 2)

TCS(md, s) ==
    LET state_monthly == UpdatesOf(md, s)
    IN  IF Len(state_monthly) > 1 /\ RLess(RInt(0), np_mean(state_monthly))
            THEN LET cov == RDiv(np_std(state_monthly), np_mean(state_monthly))
                 IN  RMax(RInt(0), RSub(RInt(1), cov))
            ELSE R(1, 2)

calculate_metrics(sd, dd, md) ==
    [s \in DOMAIN sd |->
        [state |-> s,
         total_enrolment |-> sd[s].total_enrolment,
         total_updates |-> sd[s].total_bio + sd[s].total_demo,
         total_bio |-> sd[s].total_bio,
         total_demo |-> sd[s].total_demo,
         enrol_share |-> enrol_share(sd, s),
         update_share |-> update_share(sd, s),
         IDI |-> IDI(sd, s),
         UBI |-> UBI(sd, s),
         YIR |-> YIR(sd, s),
         GCI |-> GCI(dd, s),
         TCS |-> TCS(md, s)]]

\* ----------------------------------------------- calculate_health_score

RAbs(a) == <<Abs(a[1]), a[2]>>

\* A non-negative value at the resolution of the score columns.
Fix(a) == R((a[1] * ScoreUnit) \div a[2], ScoreUnit)

\* A row with the columns of ext added (or replaced).
Extend(r, ext) == ext @@ r

\* df[col].min(), df[col].max()
ColumnMin(t, col) ==
    CHOOSE v \in {t[k][col] : k \in DOMAIN t} : \A k \in DOMAIN t : RLeq(v, t[k][col])
ColumnMax(t, col) ==
    CHOOSE v \in {t[k][col] : k \in DOMAIN t} : \A k \in DOMAIN t : RLeq(t[k][col], v)

\* The normalised IDI without its inversion: 100 * (IDI - min) / (range + eps).
IDIScoreNotInverted(t, s) ==
    LET idi_min == ColumnMin(t, "IDI")
        idi_max == ColumnMax(t, "IDI")
    IN  Fix(RMul(RInt(100),
                 RDiv(RSub(t[s].IDI, idi_min),
                      RAdd(RSub(idi_max, idi_min), R(1, 1000)))))

IDI_score(t, s) ==
    LET idi_min == ColumnMin(t, "IDI")
        idi_max == ColumnMax(t, "IDI")
    IN  Fix(RMul(RInt(100),
                 RSub(RInt(1),
                      RDiv(RSub(t[s].IDI, idi_min),
                           RAdd(RSub(idi_max, idi_min), R(1, 1000))))))

UBI_score(t, s) ==
    Fix(Clip(RMul(RInt(100),
                  RSub(RInt(1), RDiv(RAbs(RSub(t[s].UBI, R(425, 1000))), R(425, 1000)))),
             RInt(0), RInt(100)))

YIR_score(t, s) == Fix(RDiv(RMul(RInt(100), RMin(t[s].YIR, R(15, 10))), R(15, 10)))

GCI_score(t, s) == Fix(RMul(RInt(100), RSub(RInt(1), t[s].GCI)))

TCS_score(t, s) == Fix(RMul(RInt(100), t[s].TCS))

\* The IDI weight 0.35: the weights sum to 1.1.
HealthScoreBadWeights(r) ==
    Fix(RAdd(RMul(R(35, 100), r.IDI_score),
        RAdd(RMul(R(25, 100), r.GCI_score),
        RAdd(RMul(R(20, 100), r.TCS_score),
        RAdd(RMul(R(20, 100), r.YIR_score),
             RMul(R(10, 100), r.UBI_score))))))

Health_Score(r) ==
    Fix(RAdd(RMul(R(25, 100), r.IDI_score),
        RAdd(RMul(R(25, 100), r.GCI_score),
        RAdd(RMul(R(20, 100), r.TCS_score),
        RAdd(RMul(R(20, 100), r.YIR_score),
             RMul(R(10, 100), r.UBI_score))))))

calculate_health_score(t) ==
    [s \in DOMAIN t |->
        LET scored == Extend(t[s], [IDI_score |-> IDI_score(t, s),
                                    UBI_score |-> UBI_score(t, s),
                                    YIR_score |-> YIR_score(t, s),
                                    GCI_score |-> GCI_score(t, s),
                                    TCS_score |-> TCS_score(t, s)])
        IN  Extend(scored, [Health_Score |-> Health_Score(scored)])]

\* ---------------------------------------------------- assign_archetypes

archetype_symbol ==
    [a \in AllArchetypes |->
        CASE a = "Digital Leader" -> "[+]"
          [] a = "Sprinter" -> "[~]"
          [] a = "Sleepwalker" -> "[-]"
          [] a = "Moderate" -> "[=]"
          [] OTHER -> "[!]"]

assign_archetypes(t) ==
    [s \in DOMAIN t |->
        LET a == classify_archetype(t[s])
        IN  Extend(t[s], [Archetype |-> a,
                          Archetype_Symbol |->
                              IF a \in DOMAIN archetype_symbol THEN archetype_symbol[a]
                              ELSE "NaN"])]

\* ---------------------------------------------- calculate_problem_risks

\* The shortfall without its clip.
ShortfallNoClip(num, den) ==
    IF den > 0 THEN RMul(RSub(RInt(1), R(num, den)), RInt(100)) ELSE RInt(0)

\* No enrolment counted as full risk.
ShortfallFullRisk(num, den) ==
    Clip(IF den > 0 THEN RMul(RSub(RInt(1), R(num, den)), RInt(100)) ELSE RInt(100),
         RInt(0), RInt(100))

\* np.where(den > 0, (1 - num / den) * 100, 0).clip(0, 100)
ShortfallRisk(num, den) ==
    Clip(IF den > 0 THEN RMul(RSub(RInt(1), R(num, den)), RInt(100)) ELSE RInt(0),
         RInt(0), RInt(100))

PDS_Risk(r) == ShortfallRisk(r.bio_age_17_, r.age_18_greater)

DBT_Risk(r) == ShortfallRisk(r.demo_age_17_, r.age_18_greater)

Scholarship_Risk(r) == Clip(RMul(RSub(RInt(1), r.YIR), RInt(100)), RInt(0), RInt(100))

OTP_Risk(r) ==
    Clip(IF r.age_5_17 > 0
            THEN RMul(R(r.age_5_17 - r.demo_age_5_17, r.age_5_17), RInt(100))
            ELSE RInt(0),
         RInt(0), RInt(100))

\* The Health_Score itself, not its complement to 100.
BankingRiskNotInverted(r) == Clip(r.Health_Score, RInt(0), RInt(100))

Banking_Risk(r) == Clip(RSub(RInt(100), r.Health_Score), RInt(0), RInt(100))

\* df[[...five risks...]].mean(axis=1)
Composite_Problem_Risk(r) ==
    RDiv(RAdd(r.PDS_Risk,
         RAdd(r.DBT_Risk,
         RAdd(r.Scholarship_Risk,
         RAdd(r.OTP_Risk, r.Banking_Risk)))), RInt(5))

AgeColumns ==
    {"age_0_5", "age_5_17", "age_18_greater", "bio_age_5_17", "bio_age_17_",
     "demo_age_5_17", "demo_age_17_"}

calculate_problem_risks(sd, t) ==
    [s \in DOMAIN t |->
        LET merged == Extend(t[s], [f \in AgeColumns |-> sd[s][f]])
            risks == Extend(merged, [PDS_Risk |-> PDS_Risk(merged),
                                     DBT_Risk |-> DBT_Risk(merged),
                                     Scholarship_Risk |-> Scholarship_Risk(merged),
                                     OTP_Risk |-> OTP_Risk(merged),
                                     Banking_Risk |-> Banking_Risk(merged)])
        IN  Extend(risks, [Composite_Problem_Risk |-> Composite_Problem_Risk(risks)])]

\* ------------------------------------------------------------ the run

\* calculate_gini has not returned
NoResult == <<-1, 1>>

\* folders whose CSV files hold no record
NoRecords == [enrolment |-> <<>>, biometric |-> <<>>, demographic |-> <<>>]

\* no exception has been raised
NoError == [type |-> "none", dataset |-> "none"]

NoRow == [IDI |-> RInt(0), UBI |-> RInt(0), YIR |-> RInt(0), GCI |-> RInt(0),
          TCS |-> RInt(0), Health_Score |-> RInt(0)]

Init ==
    /\ pc = "load"
    /\ enrol = Empty
    /\ bio = Empty
    /\ demo = Empty
    /\ state_data = Empty
    /\ district_data = Empty
    /\ monthly_data = Empty
    /\ metrics_df = Empty
    /\ row = NoRow
    /\ archetype = "None"
    /\ values = <<>>
    /\ gini = NoResult
    /\ error = NoError
    /\ outputs = {}
    /\ enrolment = <<>>
    /\ biometric = <<>>
    /\ demographic = <<>>
    /\ data_dir = NoRecords

\* load_data: one more row of the enrolment stream, of at most n rows read
ReadEnrolmentUpTo(n) ==
    /\ pc = "load"
    /\ \E s \in States, r \in EnrolRows :
        LET e == AddRow(enrol, s, r)
        IN  /\ InputRows(e, bio, demo) <= n
            /\ enrol' = e
    /\ UNCHANGED <<pc, bio, demo, state_data, district_data, monthly_data,
                   metrics_df, row, archetype, values, gini>>
    /\ UNCHANGED <<error, outputs, enrolment, biometric, demographic, data_dir>>

ReadEnrolment == ReadEnrolmentUpTo(MaxRecords)

\* load_data: one more row of the biometric stream
ReadBiometricUpTo(n) ==
    /\ pc = "load"
    /\ \E k \in Cells, r \in BioRows :
        LET b == AddRow(bio, k, r)
        IN  /\ InputRows(enrol, b, demo) <= n
            /\ bio' = b
    /\ UNCHANGED <<pc, enrol, demo, state_data, district_data, monthly_data,
                   metrics_df, row, archetype, values, gini>>
    /\ UNCHANGED <<error, outputs, enrolment, biometric, demographic, data_dir>>

ReadBiometric == ReadBiometricUpTo(MaxRecords)

\* load_data: one more row of the demographic stream
ReadDemographicUpTo(n) ==
    /\ pc = "load"
    /\ \E k \in Cells, r \in DemoRows :
        LET d == AddRow(demo, k, r)
        IN  /\ InputRows(enrol, bio, d) <= n
            /\ demo' = d
    /\ UNCHANGED <<pc, enrol, bio, state_data, district_data, monthly_data,
                   metrics_df, row, archetype, values, gini>>
    /\ UNCHANGED <<error, outputs, enrolment, biometric, demographic, data_dir>>

ReadDemographic == ReadDemographicUpTo(MaxRecords)

\* load_all_csvs: a folder of no CSV file raises FileNotFoundError, which
\* names the folder.  load_data reads enrolment, biometric, demographic in
\* this order, so the folders after the failing one were not read.
Datasets == <<"enrolment", "biometric", "demographic">>

NotLoadedFrom(i) ==
    /\ i <= 1 => enrol = Empty
    /\ i <= 2 => bio = Empty
    /\ demo = Empty

LoadFails ==
    /\ pc = "load"
    /\ \E i \in DOMAIN Datasets :
        /\ NotLoadedFrom(i)
        /\ error' = [type |-> "FileNotFoundError", dataset |-> Datasets[i]]
    /\ pc' = "failed"
    /\ UNCHANGED <<enrol, bio, demo, state_data, district_data, monthly_data,
                   metrics_df, row, archetype, values, gini, outputs,
                   enrolment, biometric, demographic, data_dir>>

\* main: the three aggregations
Aggregate ==
    /\ pc = "load"
    /\ state_data' = aggregate_by_state(enrol, bio, demo)
    /\ district_data' = aggregate_by_district(bio, demo)
    /\ monthly_data' = aggregate_by_month(bio, demo)
    /\ pc' = "aggregated"
    /\ UNCHANGED <<enrol, bio, demo, metrics_df, row, archetype, values, gini>>
    /\ UNCHANGED <<error, outputs, enrolment, biometric, demographic, data_dir>>

\* main: metrics_df = calculate_metrics(...); a table of no rows has no
\* IDI column, and metrics_df['IDI'] raises KeyError
CalculateMetrics ==
    /\ pc = "aggregated"
    /\ IF DOMAIN state_data = {}
         THEN /\ pc' = "failed"
              /\ error' = [type |-> "KeyError", dataset |-> "none"]
              /\ UNCHANGED metrics_df
         ELSE /\ metrics_df' = calculate_metrics(state_data, district_data, monthly_data)
              /\ pc' = "metrics"
              /\ UNCHANGED error
    /\ UNCHANGED <<enrol, bio, demo, state_data, district_data, monthly_data,
                   row, archetype, values, gini>>
    /\ UNCHANGED <<outputs, enrolment, biometric, demographic, data_dir>>

CalculateHealthScore ==
    /\ pc = "metrics"
    /\ metrics_df' = calculate_health_score(metrics_df)
    /\ pc' = "health"
    /\ UNCHANGED <<enrol, bio, demo, state_data, district_data, monthly_data,
                   row, archetype, values, gini>>
    /\ UNCHANGED <<error, outputs, enrolment, biometric, demographic, data_dir>>

AssignArchetypes ==
    /\ pc = "health"
    /\ metrics_df' = assign_archetypes(metrics_df)
    /\ pc' = "archetypes"
    /\ UNCHANGED <<enrol, bio, demo, state_data, district_data, monthly_data,
                   row, archetype, values, gini>>
    /\ UNCHANGED <<error, outputs, enrolment, biometric, demographic, data_dir>>

CalculateProblemRisks ==
    /\ pc = "archetypes"
    /\ metrics_df' = calculate_problem_risks(state_data, metrics_df)
    /\ pc' = "risks"
    /\ UNCHANGED <<enrol, bio, demo, state_data, district_data, monthly_data,
                   row, archetype, values, gini>>
    /\ UNCHANGED <<error, outputs, enrolment, biometric, demographic, data_dir>>

\* The files main() writes, in the order it writes them.
Visualizations ==
    <<"01_archetype_summary.png", "02_archetype_scatter.png",
      "03_health_heatmap.png", "04_idi_diverging.png", "05_yir_bar.png",
      "06_gci_bar.png", "07_ubi_stacked.png", "08_temporal_trends.png",
      "09_radar_archetypes.png", "10_state_rankings.png">>

ProblemVisualizations ==
    <<"11_problem_risk_heatmap.png", "12_problem_severity_distribution.png",
      "13_archetype_problem_matrix.png", "14_state_problem_profiles.png",
      "15_intervention_priority_map.png">>

InsightsReport == <<"insights_report.md">>
Recommendations == <<"archetype_recommendations.csv">>
Results == <<"state_ecosystem_metrics.csv", "archetype_summary.csv">>

\* A step of main() that writes these files one after the other.  A write
\* (savefig, open, to_csv) either succeeds or raises OSError; main() catches
\* nothing, so the files written before the failing write stay on disk.
WriteFiles(from, to, files) ==
    /\ pc = from
    /\ \E k \in 0..Len(files) :
        /\ outputs' = outputs \cup {files[i] : i \in 1..k}
        /\ IF k = Len(files)
             THEN pc' = to /\ UNCHANGED error
             ELSE /\ pc' = "failed"
                  /\ error' = [type |-> "OSError", dataset |-> "none"]
    /\ UNCHANGED <<enrol, bio, demo, state_data, district_data, monthly_data,
                   metrics_df, row, archetype, values, gini,
                   enrolment, biometric, demographic, data_dir>>

CreateVisualizations == WriteFiles("risks", "visualized", Visualizations)

CreateProblemVisualizations ==
    WriteFiles("visualized", "problems_visualized", ProblemVisualizations)

GenerateInsightsReport == WriteFiles("problems_visualized", "reported", InsightsReport)

GenerateRecommendations == WriteFiles("reported", "recommended", Recommendations)

SaveResults == WriteFiles("recommended", "done", Results)

Next ==
    \/ LoadFails
    \/ ReadEnrolment
    \/ ReadBiometric
    \/ ReadDemographic
    \/ Aggregate
    \/ CalculateMetrics
    \/ CalculateHealthScore
    \/ AssignArchetypes
    \/ CalculateProblemRisks

\* the stages of main() up to the risks
Spec == Init /\ [][Next]_vars

\* main() to its end, the files it writes included
NextMain ==
    \/ LoadFails
    \/ ReadEnrolmentUpTo(MaxMainRecords)
    \/ ReadBiometricUpTo(MaxMainRecords)
    \/ ReadDemographicUpTo(MaxMainRecords)
    \/ Aggregate
    \/ CalculateMetrics
    \/ CalculateHealthScore
    \/ AssignArchetypes
    \/ CalculateProblemRisks
    \/ CreateVisualizations
    \/ CreateProblemVisualizations
    \/ GenerateInsightsReport
    \/ GenerateRecommendations
    \/ SaveResults

SpecMain == Init /\ [][NextMain]_vars

\* ------------------------------------- classify_archetype on its own

\* Metric values, in hundredths, on and beside the cascade's thresholds.
Around(t) == {t - 1, t, t + 1}
IDIValues == {-3} \cup Around(3)
UBIValues == Around(25) \cup Around(65)
YIRValues == Around(60) \cup Around(80)
GCIValues == Around(40) \cup Around(60)
TCSValues == Around(40) \cup Around(60)
HealthValues == Around(40) \cup Around(70)

InitClassify ==
    /\ pc = "classify"
    /\ \E i \in IDIValues, u \in UBIValues, y \in YIRValues, g \in GCIValues,
          t \in TCSValues, h \in HealthValues :
        row = [IDI |-> R(i, 100), UBI |-> R(u, 100), YIR |-> R(y, 100),
               GCI |-> R(g, 100), TCS |-> R(t, 100), Health_Score |-> RInt(h)]
    /\ archetype = "None"
    /\ enrol = Empty
    /\ bio = Empty
    /\ demo = Empty
    /\ state_data = Empty
    /\ district_data = Empty
    /\ monthly_data = Empty
    /\ metrics_df = Empty
    /\ values = <<>>
    /\ gini = NoResult
    /\ error = NoError
    /\ outputs = {}
    /\ enrolment = <<>>
    /\ biometric = <<>>
    /\ demographic = <<>>
    /\ data_dir = NoRecords

\* df.apply(classify_archetype, axis=1) on one row
Classify ==
    /\ pc = "classify"
    /\ archetype' = classify_archetype(row)
    /\ pc' = "classified"
    /\ UNCHANGED <<enrol, bio, demo, state_data, district_data, monthly_data,
                   metrics_df, row, values, gini>>
    /\ UNCHANGED <<error, outputs, enrolment, biometric, demographic, data_dir>>

SpecClassify == InitClassify /\ [][Classify]_vars

\* ----------------------------------------- calculate_gini on its own

\* Arrays of at most n entries drawn from S.
SeqsUpTo(S, n) == UNION {[1..k -> S] : k \in 0..n}

InitGini ==
    /\ pc = "gini"
    /\ values \in SeqsUpTo(-1..MaxVal, MaxLen)
    /\ gini = NoResult
    /\ enrol = Empty
    /\ bio = Empty
    /\ demo = Empty
    /\ state_data = Empty
    /\ district_data = Empty
    /\ monthly_data = Empty
    /\ metrics_df = Empty
    /\ row = NoRow
    /\ archetype = "None"
    /\ error = NoError
    /\ outputs = {}
    /\ enrolment = <<>>
    /\ biometric = <<>>
    /\ demographic = <<>>
    /\ data_dir = NoRecords

CalculateGini ==
    /\ pc = "gini"
    /\ gini' = calculate_gini(values)
    /\ pc' = "gini_done"
    /\ UNCHANGED <<enrol, bio, demo, state_data, district_data, monthly_data,
                   metrics_df, row, archetype, values>>
    /\ UNCHANGED <<error, outputs, enrolment, biometric, demographic, data_dir>>

SpecGini == InitGini /\ [][CalculateGini]_vars

\* ------------------------------------- load_data and preprocess_data

\* A name is the sequence of its characters.
Whitespace == {" "}
Lowercase == <<"a", "b", "x">>
Uppercase == <<"A", "B", "X">>

IsCased(c) == \E i \in DOMAIN Lowercase : c = Lowercase[i] \/ c = Uppercase[i]

Upper(c) ==
    IF \E i \in DOMAIN Lowercase : c = Lowercase[i]
        THEN Uppercase[CHOOSE i \in DOMAIN Lowercase : c = Lowercase[i]]
        ELSE c

Lower(c) ==
    IF \E i \in DOMAIN Uppercase : c = Uppercase[i]
        THEN Lowercase[CHOOSE i \in DOMAIN Uppercase : c = Uppercase[i]]
        ELSE c

\* str.strip(): without the leading and the trailing whitespace
RECURSIVE Strip(_)
Strip(name) ==
    IF name = <<>> THEN name
    ELSE IF Head(name) \in Whitespace THEN Strip(Tail(name))
    ELSE IF name[Len(name)] \in Whitespace THEN Strip(SubSeq(name, 1, Len(name) - 1))
    ELSE name

\* str.title(): a cased character is upper case at the start of a word and
\* lower case after another cased character
Title(name) ==
    [i \in DOMAIN name |->
        IF i > 1 /\ IsCased(name[i - 1]) THEN Lower(name[i]) ELSE Upper(name[i])]

\* The whitespace stripped and the case left as it is.
StandardizeNoTitle(name) == Strip(name)

\* df['state'].str.strip().str.title()
Standardize(name) == Title(Strip(name))

\* A date cell "a-b-c" is the triple of its three numbers.
DaysIn(month, year) ==
    IF month \in {4, 6, 9, 11} THEN 30
    ELSE IF month # 2 THEN 31
    ELSE IF year % 4 = 0 /\ (year % 100 # 0 \/ year % 400 = 0) THEN 29
    ELSE 28

\* pd.to_datetime(format='%d-%m-%Y') accepts the cell: day-month-year of a
\* calendar date within the range of a Timestamp
Parseable(cell) ==
    /\ cell[3] \in 1678..2261
    /\ cell[2] \in 1..12
    /\ cell[1] \in 1..DaysIn(cell[2], cell[3])

to_datetime(cell) == [day |-> cell[1], month |-> cell[2], year |-> cell[3]]

\* dt.to_period('M')
to_period(date) == <<date.year, date.month>>

\* The cells the records of the files may hold.
RawStates == {<<"a", "b">>, <<" ", "A", "B">>, <<"b">>}
RawDistricts == {<<"x">>, <<"X", " ">>}
RawDates == {<<15, 1, 2025>>, <<15, 2, 2025>>, <<31, 2, 2025>>}

EnrolmentRecords ==
    {[state |-> st, district |-> di, date |-> da,
      age_0_5 |-> 1, age_5_17 |-> 0, age_18_greater |-> 1] :
        st \in RawStates, di \in RawDistricts, da \in RawDates}

BiometricRecords ==
    {[state |-> st, district |-> di, date |-> da,
      bio_age_5_17 |-> 1, bio_age_17_ |-> 2] :
        st \in RawStates, di \in RawDistricts, da \in RawDates}

DemographicRecords ==
    {[state |-> st, district |-> di, date |-> da,
      demo_age_5_17 |-> 0, demo_age_17_ |-> 1] :
        st \in RawStates, di \in RawDistricts, da \in RawDates}

\* lines 83-85 on one table: raises ValueError unless every date parses
DatesParse(t) == \A i \in DOMAIN t : Parseable(t[i].date)
ParseDates(t) == [i \in DOMAIN t |-> [t[i] EXCEPT !.date = to_datetime(@)]]

\* lines 88-90, 93-96 and 99-106 on one table
AddMonth(t) == [i \in DOMAIN t |-> [month |-> to_period(t[i].date)] @@ t[i]]

StandardizeNames(t) ==
    [i \in DOMAIN t |->
        [t[i] EXCEPT !.state = Standardize(@), !.district = Standardize(@)]]

AddTotalEnrolment(t) ==
    [i \in DOMAIN t |->
        [total_enrolment |-> t[i].age_0_5 + t[i].age_5_17 + t[i].age_18_greater]
            @@ t[i]]

AddTotalBio(t) ==
    [i \in DOMAIN t |-> [total_bio |-> t[i].bio_age_5_17 + t[i].bio_age_17_] @@ t[i]]

AddTotalDemo(t) ==
    [i \in DOMAIN t |-> [total_demo |-> t[i].demo_age_5_17 + t[i].demo_age_17_] @@ t[i]]

\* the grouping keys of the preprocessed rows
RowState(t) == [i \in DOMAIN t |-> t[i].state]
RowCell(t) == [i \in DOMAIN t |-> <<t[i].state, t[i].district, t[i].month>>]

InitPreprocess ==
    /\ pc = "start"
    /\ \E ne \in 0..MaxRawRecords :
        \E nb \in 0..(MaxRawRecords - ne) :
            \E nd \in 0..(MaxRawRecords - ne - nb) :
                \E e \in [1..ne -> EnrolmentRecords], b \in [1..nb -> BiometricRecords],
                   d \in [1..nd -> DemographicRecords] :
                    data_dir = [enrolment |-> e, biometric |-> b, demographic |-> d]
    /\ enrolment = <<>>
    /\ biometric = <<>>
    /\ demographic = <<>>
    /\ error = NoError
    /\ outputs = {}
    /\ enrol = Empty
    /\ bio = Empty
    /\ demo = Empty
    /\ state_data = Empty
    /\ district_data = Empty
    /\ monthly_data = Empty
    /\ metrics_df = Empty
    /\ row = NoRow
    /\ archetype = "None"
    /\ values = <<>>
    /\ gini = NoResult

\* main: enrolment, biometric, demographic = load_data(), every folder
\* holding CSV files (LoadFails is the folder that holds none)
LoadData ==
    /\ pc = "start"
    /\ enrolment' = data_dir.enrolment
    /\ biometric' = data_dir.biometric
    /\ demographic' = data_dir.demographic
    /\ pc' = "loaded"
    /\ UNCHANGED <<enrol, bio, demo, state_data, district_data, monthly_data,
                   metrics_df, row, archetype, values, gini, error, outputs,
                   data_dir>>

\* preprocess_data assigns the new columns to the tables it was given.  The
\* three dates are parsed one table after the other, so a table parsed
\* before the one that raises keeps its parsed dates.
PreprocessData ==
    /\ pc = "loaded"
    /\ IF ~DatesParse(enrolment)
         THEN /\ pc' = "failed"
              /\ error' = [type |-> "ValueError", dataset |-> "none"]
              /\ UNCHANGED <<enrolment, biometric, demographic>>
         ELSE IF ~DatesParse(biometric)
         THEN /\ pc' = "failed"
              /\ error' = [type |-> "ValueError", dataset |-> "none"]
              /\ enrolment' = ParseDates(enrolment)
              /\ UNCHANGED <<biometric, demographic>>
         ELSE IF ~DatesParse(demographic)
         THEN /\ pc' = "failed"
              /\ error' = [type |-> "ValueError", dataset |-> "none"]
              /\ enrolment' = ParseDates(enrolment)
              /\ biometric' = ParseDates(biometric)
              /\ UNCHANGED demographic
         ELSE /\ pc' = "preprocessed"
              /\ enrolment' =
                    AddTotalEnrolment(StandardizeNames(AddMonth(ParseDates(enrolment))))
              /\ biometric' =
                    AddTotalBio(StandardizeNames(AddMonth(ParseDates(biometric))))
              /\ demographic' =
                    AddTotalDemo(StandardizeNames(AddMonth(ParseDates(demographic))))
              /\ UNCHANGED error
    /\ UNCHANGED <<enrol, bio, demo, state_data, district_data, monthly_data,
                   metrics_df, row, archetype, values, gini, outputs, data_dir>>

\* main: the three aggregations of the preprocessed tables
AggregateTables ==
    /\ pc = "preprocessed"
    /\ LET e == GroupBy(enrolment, RowState(enrolment), ZeroEnrol)
           b == GroupBy(biometric, RowCell(biometric), ZeroBio)
           d == GroupBy(demographic, RowCell(demographic), ZeroDemo)
       IN  /\ state_data' = aggregate_by_state(e, b, d)
           /\ district_data' = aggregate_by_district(b, d)
           /\ monthly_data' = aggregate_by_month(b, d)
    /\ pc' = "aggregated"
    /\ UNCHANGED <<enrol, bio, demo, metrics_df, row, archetype, values, gini,
                   error, outputs, enrolment, biometric, demographic, data_dir>>

NextPreprocess ==
    \/ LoadData
    \/ PreprocessData
    \/ AggregateTables

SpecPreprocess == InitPreprocess /\ [][NextPreprocess]_vars

\* ------------------------------ the stages on a table of three regions

Regions == {"A", "B", "C"}

\* What the records of one region add up to: e adult enrolments, b adult and
\* y youth biometric updates, all in one district and one month.
RegionInputs == [e : 0..MaxEnrolment, b : 0..1, y : 0..1]

\* The grouped enrolment and biometric rows of such regions.
EnrolOf(in) ==
    [s \in DOMAIN in |->
        [age_0_5 |-> 0, age_5_17 |-> 0, age_18_greater |-> in[s].e,
         total_enrolment |-> in[s].e]]

BioOf(in) ==
    [k \in {<<s, "d1", 1>> : s \in DOMAIN in} |->
        [bio_age_5_17 |-> in[k[1]].y, bio_age_17_ |-> in[k[1]].b,
         total_bio |-> in[k[1]].b + in[k[1]].y]]

\* main: the table after calculate_problem_risks, from the grouped rows
Pipeline(e, b, d) ==
    LET sd == aggregate_by_state(e, b, d)
        dd == aggregate_by_district(b, d)
        md == aggregate_by_month(b, d)
    IN  calculate_problem_risks(sd,
            assign_archetypes(calculate_health_score(calculate_metrics(sd, dd, md))))

\* main() after the three aggregations, the input of three regions
InitRegions ==
    /\ pc = "aggregated"
    /\ \E in \in [Regions -> RegionInputs] :
        /\ enrol = EnrolOf(in)
        /\ bio = BioOf(in)
    /\ demo = Empty
    /\ state_data = aggregate_by_state(enrol, bio, demo)
    /\ district_data = aggregate_by_district(bio, demo)
    /\ monthly_data = aggregate_by_month(bio, demo)
    /\ metrics_df = Empty
    /\ row = NoRow
    /\ archetype = "None"
    /\ values = <<>>
    /\ gini = NoResult
    /\ error = NoError
    /\ outputs = {}
    /\ enrolment = <<>>
    /\ biometric = <<>>
    /\ demographic = <<>>
    /\ data_dir = NoRecords

NextRegions ==
    \/ CalculateMetrics
    \/ CalculateHealthScore
    \/ AssignArchetypes
    \/ CalculateProblemRisks

SpecRegions == InitRegions /\ [][NextRegions]_vars

\* ------------------------- calculate_metrics on the months of one region

\* The update rows of state A, one for each of the months 1..n, here
\* biometric updates of adults in one district.
MonthlyBio(totals) ==
    [k \in {<<"A", "d1", m>> : m \in DOMAIN totals} |->
        BioRow("bio_age_17_", totals[k[3]])]

\* main() after the three aggregations, the input the months of one region
InitMonthly ==
    /\ pc = "aggregated"
    /\ enrol = Empty
    /\ \E totals \in SeqsUpTo(0..MaxVal, MaxLen) : bio = MonthlyBio(totals)
    /\ demo = Empty
    /\ state_data = aggregate_by_state(enrol, bio, demo)
    /\ district_data = aggregate_by_district(bio, demo)
    /\ monthly_data = aggregate_by_month(bio, demo)
    /\ metrics_df = Empty
    /\ row = NoRow
    /\ archetype = "None"
    /\ values = <<>>
    /\ gini = NoResult
    /\ error = NoError
    /\ outputs = {}
    /\ enrolment = <<>>
    /\ biometric = <<>>
    /\ demographic = <<>>
    /\ data_dir = NoRecords

SpecMonthly == InitMonthly /\ [][CalculateMetrics]_vars

\* ================================================================ claims

\* a < p/q and a > p/q for a rational a and integers p, q > 0
Lt(a, p, q) == a[1] * q < p * a[2]
Gt(a, p, q) == a[1] * q > p * a[2]
InRange(a, lo, hi) == lo * a[2] <= a[1] /\ a[1] <= hi * a[2]

\* The seven rules of the cascade, by number.
RuleHolds(i, r) ==
    CASE i = 1 -> Lt(r.YIR, 6, 10)
      [] i = 2 -> Lt(r.UBI, 25, 100) \/ Gt(r.UBI, 65, 100)
      [] i = 3 -> Gt(r.GCI, 6, 10)
      [] i = 4 -> Lt(r.TCS, 4, 10) /\ Lt(r.Health_Score, 40, 1)
      [] i = 5 -> /\ Gt(r.Health_Score, 70, 1)
                  /\ Gt(r.TCS, 6, 10)
                  /\ Lt(r.GCI, 4, 10)
                  /\ Gt(r.YIR, 8, 10)
      [] i = 6 -> Gt(r.IDI, 3, 100)
      [] OTHER -> TRUE

RuleLabel ==
    <<"Excluded (Youth)", "Excluded (Update Imbalance)", "Excluded (Geographic)",
      "Sleepwalker", "Digital Leader", "Sprinter", "Moderate">>

FirstRule(r) ==
    CHOOSE i \in 1..7 : RuleHolds(i, r) /\ \A j \in 1..(i - 1) : ~RuleHolds(j, r)

\* C1: classify_archetype returns the label of the first rule, in the order
\* 1..7, whose condition holds on the row; the comparisons are strict, and a
\* row with YIR < 0.6 is 'Excluded (Youth)' whatever its other metrics are.
C1_FirstMatchingRule ==
    pc = "classified" =>
        /\ archetype = RuleLabel[FirstRule(row)]
        /\ (Lt(row.YIR, 6, 10) => archetype = "Excluded (Youth)")
        /\ (row.YIR = R(6, 10) => archetype # "Excluded (Youth)")

\* A row that fails rules 1, 2 and 3 at once and is labelled by rule 1.
C1_Witness ==
    /\ pc = "classified"
    /\ Lt(row.YIR, 6, 10)
    /\ Gt(row.UBI, 65, 100)
    /\ Gt(row.GCI, 6, 10)
    /\ archetype = "Excluded (Youth)"

\* C2: a row labelled 'Digital Leader' fails no exclusion threshold:
\* YIR >= 0.6, 0.25 <= UBI <= 0.65 and GCI <= 0.6.
C2_LeaderNotExcluded ==
    (pc = "classified" /\ archetype = "Digital Leader") =>
        /\ ~Lt(row.YIR, 6, 10)
        /\ ~Lt(row.UBI, 25, 100)
        /\ ~Gt(row.UBI, 65, 100)
        /\ ~Gt(row.GCI, 6, 10)

\* A row labelled 'Digital Leader' with UBI on an exclusion threshold.
C2_Witness ==
    /\ pc = "classified"
    /\ archetype = "Digital Leader"
    /\ row.UBI = R(65, 100)

ClosedSet ==
    {"Digital Leader", "Sprinter", "Sleepwalker", "Moderate", "Excluded (Youth)",
     "Excluded (Update Imbalance)", "Excluded (Geographic)"}

\* C3: after assign_archetypes every region of the Region Aggregate has a
\* row, and the row's Archetype is a member of the closed set of seven.
C3_ArchetypeInClosedSet ==
    pc \in {"archetypes", "risks"} =>
        /\ DOMAIN metrics_df = DOMAIN state_data
        /\ \A s \in DOMAIN metrics_df :
            /\ metrics_df[s].Archetype \in ClosedSet
            /\ metrics_df[s].Archetype_Symbol # "NaN"

\* Two regions labelled, one of them by the default rule.
C3_Witness ==
    /\ pc = "archetypes"
    /\ \E s, t \in DOMAIN metrics_df :
        /\ metrics_df[s].Archetype = "Moderate"
        /\ metrics_df[t].Archetype \notin {"Moderate", "None"}

\* C4: the composite Health_Score of every region lies in [0, 100].
C4_HealthScoreRange ==
    pc \in {"health", "archetypes", "risks"} =>
        \A s \in DOMAIN metrics_df : InRange(metrics_df[s].Health_Score, 0, 100)

\* A region whose IDI, GCI and TCS scores are all 100.
C4_Witness ==
    /\ pc = "health"
    /\ \E s \in DOMAIN metrics_df :
        /\ metrics_df[s].IDI_score = RInt(100)
        /\ metrics_df[s].GCI_score = RInt(100)
        /\ metrics_df[s].TCS_score = RInt(100)
        /\ Gt(metrics_df[s].Health_Score, 90, 1)

\* C5: UBI, GCI and TCS of every region lie in [0, 1], the fall-back values
\* included.
C5_PillarRanges ==
    pc \in {"metrics", "health", "archetypes", "risks"} =>
        \A s \in DOMAIN metrics_df :
            /\ InRange(metrics_df[s].UBI, 0, 1)
            /\ InRange(metrics_df[s].GCI, 0, 1)
            /\ InRange(metrics_df[s].TCS, 0, 1)

\* One region on the fall-back paths (no updates, no district, no month)
\* beside one with unequal districts and months.
C5_Witness ==
    /\ pc = "metrics"
    /\ \E s, t \in DOMAIN metrics_df :
        /\ metrics_df[s].total_updates = 0
        /\ metrics_df[s].UBI = R(1, 2)
        /\ metrics_df[s].TCS = R(1, 2)
        /\ Gt(metrics_df[t].GCI, 0, 1)
        /\ Lt(metrics_df[t].TCS, 1, 1)

RECURSIVE RSum(_)
RSum(q) == IF q = <<>> THEN RInt(0) ELSE RAdd(Head(q), RSum(Tail(q)))

\* metrics_df['IDI'].sum()
SumIDI == RSum(Column([s \in DOMAIN metrics_df |-> metrics_df[s].IDI], DOMAIN metrics_df))

\* |a| <= 1e-6
WithinTolerance(a) == Abs(a[1]) * 1000000 <= a[2]

NationalEnrolment == ColumnSum(state_data, "total_enrolment")
NationalUpdates == ColumnSum(state_data, "total_updates")

AfterMetrics == pc \in {"metrics", "health", "archetypes", "risks"}

RiskColumns == {"PDS_Risk", "DBT_Risk", "Scholarship_Risk", "OTP_Risk", "Banking_Risk"}

\* C7: each of the five risks of every region lies in [0, 100], and
\* Composite_Problem_Risk is their unweighted mean, also in [0, 100].
C7_RiskRanges ==
    pc = "risks" =>
        \A s \in DOMAIN metrics_df :
            LET r == metrics_df[s]
            IN  /\ \A c \in RiskColumns : InRange(r[c], 0, 100)
                /\ REq(RMul(RInt(5), r.Composite_Problem_Risk),
                       RSum(<<r.PDS_Risk, r.DBT_Risk, r.Scholarship_Risk,
                              r.OTP_Risk, r.Banking_Risk>>))
                /\ InRange(r.Composite_Problem_Risk, 0, 100)

\* A region whose adult biometric updates exceed its adult enrolments.
C7_Witness ==
    /\ pc = "risks"
    /\ \E s \in DOMAIN metrics_df :
        /\ metrics_df[s].age_18_greater > 0
        /\ metrics_df[s].bio_age_17_ > metrics_df[s].age_18_greater
        /\ metrics_df[s].PDS_Risk = RInt(0)

\* C8: a region of no adult enrolment has PDS_Risk = 0 and DBT_Risk = 0, and
\* a region of no 5-17 enrolment has OTP_Risk = 0, whatever its updates are.
C8_ZeroEnrolmentZeroRisk ==
    pc = "risks" =>
        \A s \in DOMAIN metrics_df :
            LET r == metrics_df[s]
            IN  /\ r.age_18_greater = 0 => (r.PDS_Risk = RInt(0) /\ r.DBT_Risk = RInt(0))
                /\ r.age_5_17 = 0 => r.OTP_Risk = RInt(0)

\* A region with adult and 5-17 updates and no enrolment at all.
C8_Witness ==
    /\ pc = "risks"
    /\ \E s \in DOMAIN metrics_df :
        /\ metrics_df[s].age_18_greater = 0
        /\ metrics_df[s].age_5_17 = 0
        /\ metrics_df[s].bio_age_17_ > 0
        /\ metrics_df[s].demo_age_17_ > 0
        /\ metrics_df[s].demo_age_5_17 > 0

\* The strictly positive entries of calculate_gini's argument.
PositiveAt == {i \in DOMAIN values : values[i] > 0}
NPositive == Cardinality(PositiveAt)

\* C9: calculate_gini returns exactly 0 for an input of a single positive
\* value and for an input of n >= 2 positive values that are all equal.
C9_GiniZeroWhenEqual ==
    (/\ pc = "gini_done"
     /\ NPositive >= 1
     /\ \A i, j \in PositiveAt : values[i] = values[j]) => gini = RInt(0)

\* Three equal positive values.
C9_Witness ==
    /\ pc = "gini_done"
    /\ NPositive = Len(values)
    /\ NPositive >= 3
    /\ \A i, j \in PositiveAt : values[i] = values[j]
    /\ gini = RInt(0)

\* n >= 2 positive values, one of them large and the others the smallest
\* count 1.
Skewed ==
    /\ NPositive = Len(values)
    /\ NPositive >= 2
    /\ \E i \in DOMAIN values : \A j \in DOMAIN values \ {i} : values[j] = 1

Largest == CHOOSE v \in {values[i] : i \in DOMAIN values} :
               \A i \in DOMAIN values : values[i] <= v

\* C10 as stated: on the maximally unequal sets the result approaches 1.0,
\* so that on the most unequal set of n values it is nearer to 1.0 than 1/n.
C10_GiniApproachesOne ==
    (pc = "gini_done" /\ Skewed /\ Largest = MaxVal) => Gt(gini, NPositive - 1, NPositive)

\* C10, amended: on n - 1 values of 1 and one value L the result is
\* (n-1)/n - (n-1)/(L+n-1), which approaches (n-1)/n as L grows (0.5 for
\* n = 2); no input of n positive values reaches (n-1)/n.
C10_GiniApproachesBound ==
    pc = "gini_done" =>
        /\ NPositive >= 2 => Lt(gini, NPositive - 1, NPositive)
        /\ Skewed => REq(RSub(R(NPositive - 1, NPositive), gini),
                         R(NPositive - 1, Largest + NPositive - 1))

\* Two values, 1 and the largest: the result is below 0.5.
C10_Witness ==
    /\ pc = "gini_done"
    /\ Skewed
    /\ NPositive = 2
    /\ Largest = MaxVal
    /\ Gt(gini, 0, 1)
    /\ Lt(gini, 1, 2)

\* The rows of the sub-region aggregate that belong to region s.
DistrictRows(s) == {k \in DOMAIN district_data : k[1] = s}

\* C11: a region with fewer than two rows in the sub-region aggregate (one
\* row, or none because it has no update record) gets GCI = 0, and
\* calculate_metrics raises no error for it: KeyError comes only from a
\* region table of no rows.
C11_FewSubRegionsZeroGCI ==
    /\ AfterMetrics =>
        \A s \in DOMAIN metrics_df :
            Cardinality(DistrictRows(s)) < 2 => metrics_df[s].GCI = RInt(0)
    /\ error.type = "KeyError" => DOMAIN state_data = {}

\* A region of no sub-region row beside a region of one sub-region row that
\* has updates, metrics computed.
C11_Witness ==
    /\ pc = "metrics"
    /\ \E s, t \in DOMAIN metrics_df :
        /\ DistrictRows(s) = {}
        /\ Cardinality(DistrictRows(t)) = 1
        /\ \A k \in DistrictRows(t) : district_data[k].total_updates > 0
        /\ metrics_df[s].GCI = RInt(0)
        /\ metrics_df[t].GCI = RInt(0)

\* The regions of a stream of update rows.
StatesOf(t) == {k[1] : k \in DOMAIN t}

\* C13: the Region Aggregate has a row for exactly the regions that appear
\* in at least one of the three streams; every field of a stream the region
\* is absent from is 0, and total_updates is the sum of the two update
\* totals so filled.
C13_OuterUnionOfKeys ==
    pc = "aggregated" =>
        /\ DOMAIN state_data = DOMAIN enrol \cup StatesOf(bio) \cup StatesOf(demo)
        /\ \A s \in DOMAIN state_data :
            /\ s \notin DOMAIN enrol =>
                \A f \in DOMAIN ZeroEnrol : state_data[s][f] = 0
            /\ s \notin StatesOf(bio) =>
                \A f \in DOMAIN ZeroBio : state_data[s][f] = 0
            /\ s \notin StatesOf(demo) =>
                \A f \in DOMAIN ZeroDemo : state_data[s][f] = 0
            /\ state_data[s].total_updates
                   = state_data[s].total_bio + state_data[s].total_demo

\* One region only in the enrolment stream, another only in the biometric
\* stream with a positive count, both in the Region Aggregate.
C13_Witness ==
    /\ pc = "aggregated"
    /\ \E s, t \in DOMAIN state_data :
        /\ s \in DOMAIN enrol /\ s \notin StatesOf(bio) \cup StatesOf(demo)
        /\ t \in StatesOf(bio) /\ t \notin DOMAIN enrol \cup StatesOf(demo)
        /\ state_data[s].total_updates = 0
        /\ state_data[t].total_updates > 0
        /\ state_data[t].total_enrolment = 0

\* The sum of total_updates over the rows of table t that belong to region s.
RegionUpdates(t, s) == SumSeq(UpdatesOf(t, s))

\* C15: for every region, the total_updates of its rows in the sub-region
\* aggregate sum to its total_updates in the Region Aggregate, and so do
\* those of its rows in the time-bucket aggregate.
C15_UpdateTotalsAgree ==
    pc = "aggregated" =>
        \A s \in DOMAIN state_data :
            /\ RegionUpdates(district_data, s) = state_data[s].total_updates
            /\ RegionUpdates(monthly_data, s) = state_data[s].total_updates

\* A region of two sub-regions and two months with biometric and
\* demographic updates, beside a region of no update at all.
C15_Witness ==
    /\ pc = "aggregated"
    /\ \E s, t \in DOMAIN state_data :
        /\ Cardinality(DistrictRows(s)) = 2
        /\ Len(UpdatesOf(monthly_data, s)) = 2
        /\ state_data[s].total_bio > 0
        /\ state_data[s].total_demo > 0
        /\ state_data[s].total_updates >= 3
        /\ DistrictRows(t) = {}

\* The streams that hold no record.
EmptyDatasets ==
    {Datasets[i] : i \in {j \in DOMAIN Datasets :
        \/ j = 1 /\ enrol = Empty
        \/ j = 2 /\ bio = Empty
        \/ j = 3 /\ demo = Empty}}

\* C16: when one or more of the three streams is empty, no region table is
\* computed from the others, and the run ends in an error that names an
\* empty dataset.
C16_EmptyStreamIsFatal ==
    (pc # "load" /\ EmptyDatasets # {}) =>
        /\ DOMAIN state_data = {}
        /\ pc \in {"done", "failed"} =>
            (pc = "failed" /\ error.dataset \in EmptyDatasets)

\* main() has returned or has been ended by an exception.
Ended == pc \in {"done", "failed"}

\* C18: a run that stops on a fatal condition has emitted no output, and a
\* run that has ended has written either the full region table
\* (state_ecosystem_metrics.csv) or no output file at all.
C18_NoPartialOutput ==
    /\ pc = "failed" => outputs = {}
    /\ Ended => (outputs = {} \/ "state_ecosystem_metrics.csv" \in outputs)

Pillars == {"IDI", "UBI", "YIR", "GCI", "TCS"}

\* a is a number: a ratio with a non-zero denominator
Defined(a) == a[2] > 0

\* C19: on a Region Aggregate that has rows, whatever totals are 0,
\* calculate_metrics raises no error and returns, for every region, a
\* defined value for each of IDI, UBI, YIR, GCI and TCS.
C19_ZeroDivisionNeverAborts ==
    /\ DOMAIN state_data # {} => error.type # "KeyError"
    /\ pc = "metrics" =>
        /\ DOMAIN metrics_df = DOMAIN state_data
        /\ \A s \in DOMAIN metrics_df : \A m \in Pillars : Defined(metrics_df[s][m])

\* Every total of the input is 0: regions that have only update rows of
\* count 0, in two months.
C19_Witness ==
    /\ pc = "metrics"
    /\ NationalEnrolment = 0
    /\ NationalUpdates = 0
    /\ \E s \in DOMAIN metrics_df :
        /\ Len(UpdatesOf(monthly_data, s)) = 2
        /\ metrics_df[s].UBI = R(1, 2)
        /\ metrics_df[s].TCS = R(1, 2)
        /\ metrics_df[s].YIR = RInt(1)
        /\ metrics_df[s].IDI = RInt(0)

\* Two spellings that differ only in letter case or in leading or trailing
\* whitespace.
Fold(name) == [i \in DOMAIN Strip(name) |-> Lower(Strip(name)[i])]
SameName(a, b) == Fold(a) = Fold(b)

\* The sum of the fields F over the records of table t that are spelt like
\* state st (and like district di).
StateCount(t, F, st) ==
    Sum([i \in DOMAIN t |-> Sum([f \in F |-> t[i][f]], F)],
        {i \in DOMAIN t : SameName(t[i].state, st)})

DistrictCount(t, F, st, di) ==
    Sum([i \in DOMAIN t |-> Sum([f \in F |-> t[i][f]], F)],
        {i \in DOMAIN t : SameName(t[i].state, st) /\ SameName(t[i].district, di)})

\* C14: records whose region identifiers (or sub-region identifiers within
\* one region) differ only in letter case or in leading or trailing
\* whitespace are aggregated into one group: no two rows of an aggregate
\* table have keys spelt alike, and the counts of a row are the sums over
\* all the records of the files spelt like its key.
C14_SpellingsMerge ==
    pc = "aggregated" =>
        /\ \A s, t \in DOMAIN state_data : SameName(s, t) => s = t
        /\ \A k, l \in DOMAIN district_data :
            (SameName(k[1], l[1]) /\ SameName(k[2], l[2])) => k = l
        /\ \A s \in DOMAIN state_data :
            /\ state_data[s].total_enrolment
                   = StateCount(data_dir.enrolment, EnrolFields, s)
            /\ state_data[s].total_bio = StateCount(data_dir.biometric, BioFields, s)
            /\ state_data[s].total_demo
                   = StateCount(data_dir.demographic, DemoFields, s)
        /\ \A k \in DOMAIN district_data :
            /\ district_data[k].total_bio
                   = DistrictCount(data_dir.biometric, BioFields, k[1], k[2])
            /\ district_data[k].total_demo
                   = DistrictCount(data_dir.demographic, DemoFields, k[1], k[2])

\* Two biometric records whose states are spelt "ab" and " AB" and whose
\* districts are spelt "x" and "X ", in one row of each aggregate table.
C14_Witness ==
    /\ pc = "aggregated"
    /\ Len(data_dir.biometric) = 2
    /\ data_dir.biometric[1].state # data_dir.biometric[2].state
    /\ data_dir.biometric[1].district # data_dir.biometric[2].district
    /\ Cardinality(DOMAIN state_data) = 1
    /\ Cardinality(DOMAIN district_data) = 1
    /\ \A s \in DOMAIN state_data : state_data[s].total_bio = 6
    /\ \A k \in DOMAIN district_data : district_data[k].total_updates = 6

\* The records of table t whose date parses.
WellDated(t) == SelectSeq(t, LAMBDA r : Parseable(r.date))

\* C17: a record with an unparseable date is dropped and is never fatal:
\* the run does not end in the date's ValueError, it reaches the region
\* table, and the table counts only the records whose date parses.
C17_BadDateIsDropped ==
    /\ error.type # "ValueError"
    /\ pc = "aggregated" =>
        \A s \in DOMAIN state_data :
            /\ state_data[s].total_enrolment
                   = StateCount(WellDated(data_dir.enrolment), EnrolFields, s)
            /\ state_data[s].total_bio
                   = StateCount(WellDated(data_dir.biometric), BioFields, s)
            /\ state_data[s].total_demo
                   = StateCount(WellDated(data_dir.demographic), DemoFields, s)

\* C20: a stage leaves the tables it received as they were: the three
\* loaded tables have the same columns and values after preprocess_data and
\* after the aggregations as before.
C20_StagesLeaveInputsUnchanged ==
    [][(pc = "loaded" \/ pc = "preprocessed") =>
        (enrolment' = enrolment /\ biometric' = biometric
            /\ demographic' = demographic)]_vars

\* What the records of the regions add up to, read back from the grouped rows.
InputOf(s) == [e |-> enrol[s].age_18_greater,
               b |-> bio[<<s, "d1", 1>>].bio_age_17_,
               y |-> bio[<<s, "d1", 1>>].bio_age_5_17]

\* The inputs that differ from the run's in the records of the two regions
\* other than s and have the same national totals: what one of the two loses
\* in a column the other gains.
OtherInputs(s) ==
    LET p == CHOOSE x \in Regions \ {s} : TRUE
        q == CHOOSE x \in Regions \ {s, p} : TRUE
        rest(rp) == [e |-> InputOf(p).e + InputOf(q).e - rp.e,
                     b |-> InputOf(p).b + InputOf(q).b - rp.b,
                     y |-> InputOf(p).y + InputOf(q).y - rp.y]
    IN  {[x \in Regions |-> IF x = p THEN rp ELSE IF x = q THEN rest(rp) ELSE InputOf(s)] :
            rp \in {r \in RegionInputs : rest(r) \in RegionInputs}}

SameNationalTotals(in, s) ==
    LET p == CHOOSE x \in Regions \ {s} : TRUE
        q == CHOOSE x \in Regions \ {s, p} : TRUE
    IN  /\ in[p].e + in[q].e = InputOf(p).e + InputOf(q).e
        /\ in[p].b + in[q].b = InputOf(p).b + InputOf(q).b
        /\ in[p].y + in[q].y = InputOf(p).y + InputOf(q).y

ResultOf(in) == Pipeline(EnrolOf(in), BioOf(in), Empty)

SameIDIRange(t) ==
    /\ ColumnMin(t, "IDI") = ColumnMin(metrics_df, "IDI")
    /\ ColumnMax(t, "IDI") = ColumnMax(metrics_df, "IDI")

\* C21 as stated: the row of a region after stages 4.3-4.6 depends only on
\* the region's own aggregates and the national totals; other records for
\* the other regions, the national totals kept, leave the row as it is.
C21_RegionsIndependent ==
    pc = "risks" =>
        \A s \in Regions : \A in \in OtherInputs(s) :
            SameNationalTotals(in, s) => ResultOf(in)[s] = metrics_df[s]

\* C21, amended: the row of a region depends on the region's own aggregates,
\* the national totals and the least and the greatest IDI of the table;
\* other records for the other regions that keep these leave the row as it
\* is.
C21_RegionsIndependentGivenIDIRange ==
    pc = "risks" =>
        \A s \in Regions : \A in \in OtherInputs(s) :
            SameNationalTotals(in, s) =>
                LET t == ResultOf(in)
                IN  SameIDIRange(t) => t[s] = metrics_df[s]

\* Other records for two regions, neither the exchange of the two, that keep
\* the national totals and the least and the greatest IDI.
C21_Witness ==
    /\ pc = "risks"
    /\ \E s \in Regions : \E in \in OtherInputs(s) :
        /\ SameNationalTotals(in, s)
        /\ SameIDIRange(ResultOf(in))
        /\ \E p \in Regions \ {s} :
            /\ in[p] # InputOf(p)
            /\ \A q \in Regions : in[p] # InputOf(q)

\* The youth and the adult updates of a region and of the nation.
StateYouth(s) == state_data[s].bio_age_5_17 + state_data[s].demo_age_5_17
StateAdult(s) == state_data[s].bio_age_17_ + state_data[s].demo_age_17_
NationalYouth == ColumnSum(state_data, "bio_age_5_17") + ColumnSum(state_data, "demo_age_5_17")
NationalAdult == ColumnSum(state_data, "bio_age_17_") + ColumnSum(state_data, "demo_age_17_")

\* C22: a region of no adult updates has its youth updates divided by 1 for
\* its youth-to-adult ratio, and its YIR is that ratio over the national
\* ratio, when the national ratio is positive.
C22_AdultZeroDivisorOne ==
    pc = "metrics" =>
        \A s \in DOMAIN metrics_df :
            (StateAdult(s) = 0 /\ NationalAdult > 0 /\ NationalYouth > 0) =>
                metrics_df[s].YIR =
                    RDiv(R(StateYouth(s), 1), R(NationalYouth, NationalAdult))

\* C23: when the national youth-to-adult update ratio is 0 (no youth updates
\* or no adult updates in the nation) every region has YIR = 1.0, and no
\* region is labelled by rule 1, 'Excluded (Youth)'.
C23_NationalRatioZeroYIROne ==
    pc = "archetypes" =>
        ((NationalYouth = 0 \/ NationalAdult = 0) =>
            \A s \in DOMAIN metrics_df :
                /\ metrics_df[s].YIR = RInt(1)
                /\ metrics_df[s].Archetype # "Excluded (Youth)")

\* Youth updates and no adult update in the nation, in two regions, one of
\* them without youth updates.
C23_Witness ==
    /\ pc = "archetypes"
    /\ NationalAdult = 0
    /\ NationalYouth > 0
    /\ \E s, t \in DOMAIN metrics_df :
        /\ StateYouth(s) > 0
        /\ StateYouth(t) = 0
        /\ metrics_df[t].YIR = RInt(1)

\* C24: UBI of a region is its biometric updates over its biometric and
\* demographic updates when it has updates, and exactly 0.5 when it has
\* none; a region of no updates is not labelled by rule 2, 'Excluded (Update
\* Imbalance)'.
C24_UBIOfRegion ==
    pc = "archetypes" =>
        \A s \in DOMAIN metrics_df :
            LET b == state_data[s].total_bio
                d == state_data[s].total_demo
            IN  /\ b + d > 0 =>
                    /\ metrics_df[s].UBI[1] * (b + d) = b * metrics_df[s].UBI[2]
                    /\ metrics_df[s].UBI[2] > 0
                /\ b + d = 0 =>
                    /\ metrics_df[s].UBI = <<1, 2>>
                    /\ metrics_df[s].Archetype # "Excluded (Update Imbalance)"

\* A region of no updates that passes rule 1, beside a region with more
\* biometric than demographic updates.
C24_Witness ==
    /\ pc = "archetypes"
    /\ \E s, t \in DOMAIN metrics_df :
        /\ state_data[s].total_updates = 0
        /\ ~Lt(metrics_df[s].YIR, 6, 10)
        /\ state_data[t].total_bio > state_data[t].total_demo
        /\ state_data[t].total_demo > 0

\* The time-bucket update totals of a region, and n * sum(x^2) - sum(x)^2,
\* which is n^2 times their population variance.
MonthlyTotals(s) == UpdatesOf(monthly_data, s)
SumSquares(x) == SumSeq([i \in DOMAIN x |-> x[i] * x[i]])
ScaledVariance(x) == Len(x) * SumSquares(x) - SumSeq(x) * SumSeq(x)

\* t = 1 - populationStdDev / mean of x, the square root taken to within
\* 1 / SqrtScale: (1 - t) * sum(x) * SqrtScale is the integer k with
\* k^2 <= ScaledVariance * SqrtScale^2 < (k + 1)^2.
IsOneMinusCov(t, x) ==
    LET c == RMul(RSub(RInt(1), t), RInt(SumSeq(x) * SqrtScale))
        v == ScaledVariance(x) * SqrtScale * SqrtScale
    IN  /\ c[2] = 1
        /\ c[1] >= 0
        /\ c[1] * c[1] <= v
        /\ v < (c[1] + 1) * (c[1] + 1)

\* C25: TCS of a region is 0.5 when it has fewer than two time-bucket rows
\* or their mean is 0; otherwise it is max(0, 1 - populationStdDev / mean)
\* of its time-bucket update totals: 1 for equal totals, 0 for a
\* coefficient of variation of 1 or more.
C25_TCSOfRegion ==
    pc = "metrics" =>
        \A s \in DOMAIN metrics_df :
            LET x == MonthlyTotals(s)
                t == metrics_df[s].TCS
            IN  IF Len(x) < 2 \/ SumSeq(x) = 0 THEN t = <<1, 2>>
                ELSE /\ (\A i, j \in DOMAIN x : x[i] = x[j]) => t = RInt(1)
                     /\ ScaledVariance(x) >= SumSeq(x) * SumSeq(x) => t = RInt(0)
                     /\ ScaledVariance(x) < SumSeq(x) * SumSeq(x) =>
                            Gt(t, 0, 1) /\ IsOneMinusCov(t, x)

\* Three months whose totals have a coefficient of variation above 1.
C25_Witness ==
    /\ pc = "metrics"
    /\ \E s \in DOMAIN metrics_df :
        /\ Len(MonthlyTotals(s)) = 3
        /\ ScaledVariance(MonthlyTotals(s)) > SumSeq(MonthlyTotals(s)) * SumSeq(MonthlyTotals(s))
        /\ metrics_df[s].TCS = RInt(0)

\* a = p / q for a rational a and integers p, q with q > 0
IsQuotient(a, p, q) == a[2] > 0 /\ a[1] * q = p * a[2]

\* C26: a share whose national total is 0 is taken as 0: with no updates in
\* the nation every region's update share is 0 and its IDI is its enrolment
\* share; with no enrolments in the nation every region's enrolment share
\* is 0 and its IDI is minus its update share.
C26_ZeroNationalTotalZeroShare ==
    pc = "metrics" =>
        \A s \in DOMAIN metrics_df :
            LET r == metrics_df[s]
            IN  /\ NationalUpdates = 0 =>
                    /\ r.update_share = RInt(0)
                    /\ r.IDI = r.enrol_share
                    /\ NationalEnrolment > 0 =>
                        IsQuotient(r.IDI, state_data[s].total_enrolment, NationalEnrolment)
                /\ NationalEnrolment = 0 =>
                    /\ r.enrol_share = RInt(0)
                    /\ REq(RAdd(r.IDI, r.update_share), RInt(0))
                    /\ NationalUpdates > 0 =>
                        IsQuotient(r.IDI, -state_data[s].total_updates, NationalUpdates)

\* Updates in two regions of a nation without enrolments.
C26_Witness ==
    /\ pc = "metrics"
    /\ NationalEnrolment = 0
    /\ \E s, t \in DOMAIN metrics_df :
        /\ s # t
        /\ Lt(metrics_df[s].IDI, 0, 1)
        /\ RLess(metrics_df[t].IDI, metrics_df[s].IDI)

\* C27: every region's IDI_score lies in (0, 100]; a region of the least
\* IDI has exactly 100, a region of the greatest IDI a positive score, all
\* regions have 100 when their IDI are equal, and a region of no smaller
\* IDI has no greater score.
C27_IDIScoreRange ==
    pc = "health" =>
        /\ DOMAIN metrics_df # {}
        /\ \A s \in DOMAIN metrics_df :
            /\ Gt(metrics_df[s].IDI_score, 0, 1)
            /\ ~Gt(metrics_df[s].IDI_score, 100, 1)
            /\ (\A t \in DOMAIN metrics_df : RLeq(metrics_df[s].IDI, metrics_df[t].IDI))
                    => metrics_df[s].IDI_score = RInt(100)
            /\ \A t \in DOMAIN metrics_df :
                    RLeq(metrics_df[s].IDI, metrics_df[t].IDI) =>
                        RLeq(metrics_df[t].IDI_score, metrics_df[s].IDI_score)

\* Three regions of three different IDI, two of them 1 and -1, the widest
\* range there is.
C27_Witness ==
    /\ pc = "health"
    /\ \E s, t, u \in DOMAIN metrics_df :
        /\ metrics_df[s].IDI = RInt(-1)
        /\ metrics_df[u].IDI = RInt(1)
        /\ metrics_df[t].IDI = RInt(0)
        /\ RLess(metrics_df[u].IDI_score, metrics_df[t].IDI_score)
        /\ RLess(metrics_df[t].IDI_score, metrics_df[s].IDI_score)

\* C28: Banking_Risk + Health_Score = 100 for every region of the final
\* table; Health_Score lies in [0, 100], so the clip of 100 - Health_Score
\* to [0, 100] changes nothing.
C28_BankingRiskComplement ==
    pc = "risks" =>
        \A s \in DOMAIN metrics_df :
            /\ REq(RAdd(metrics_df[s].Banking_Risk, metrics_df[s].Health_Score), RInt(100))
            /\ metrics_df[s].Banking_Risk = RSub(RInt(100), metrics_df[s].Health_Score)

\* Two regions, one of a Health_Score above 90 and one below 50.
C28_Witness ==
    /\ pc = "risks"
    /\ \E s, t \in DOMAIN metrics_df :
        /\ Gt(metrics_df[s].Health_Score, 90, 1)
        /\ Lt(metrics_df[t].Health_Score, 50, 1)
        /\ Gt(metrics_df[t].Banking_Risk, 50, 1)

\* C29: the archetype of a row bounds the risks calculate_problem_risks
\* derives from the same row: 'Digital Leader' has Banking_Risk < 30 and
\* Scholarship_Risk < 20, 'Excluded (Youth)' has Scholarship_Risk > 40, and
\* 'Sleepwalker' has Banking_Risk > 60.
C29_ArchetypeBoundsRisks ==
    pc = "classified" =>
        /\ archetype = "Digital Leader" =>
            Lt(Banking_Risk(row), 30, 1) /\ Lt(Scholarship_Risk(row), 20, 1)
        /\ archetype = "Excluded (Youth)" => Gt(Scholarship_Risk(row), 40, 1)
        /\ archetype = "Sleepwalker" => Gt(Banking_Risk(row), 60, 1)

\* A Sleepwalker of Health_Score 39, next to the threshold.
C29_Witness ==
    /\ pc = "classified"
    /\ archetype = "Sleepwalker"
    /\ row.Health_Score = RInt(39)
    /\ Banking_Risk(row) = RInt(61)

\* The array with the entries at i and j exchanged, with entry i removed,
\* and with v put in front of entry i (at the end for i = Len + 1).
Exchanged(a, i, j) ==
    [k \in DOMAIN a |-> IF k = i THEN a[j] ELSE IF k = j THEN a[i] ELSE a[k]]
Without(a, i) == SubSeq(a, 1, i - 1) \o SubSeq(a, i + 1, Len(a))
WithEntry(a, i, v) == SubSeq(a, 1, i - 1) \o <<v>> \o SubSeq(a, i, Len(a))

\* C30: calculate_gini depends only on the multiset of the strictly
\* positive entries of its argument: exchanging two entries, removing an
\* entry that is 0 or negative and adding one anywhere leave the result as
\* it is; an argument of exactly one positive entry gives 0, however many
\* zeros it has.
C30_GiniOfPositiveMultiset ==
    pc = "gini_done" =>
        /\ \A i, j \in DOMAIN values : calculate_gini(Exchanged(values, i, j)) = gini
        /\ \A i \in DOMAIN values :
                values[i] <= 0 => calculate_gini(Without(values, i)) = gini
        /\ \A i \in 1..(Len(values) + 1) : \A v \in {-1, 0} :
                calculate_gini(WithEntry(values, i, v)) = gini
        /\ Len(Positive(values)) = 1 => gini = RInt(0)

\* Unequal positive entries, the greater one first, with a zero between
\* them.
C30_Witness ==
    /\ pc = "gini_done"
    /\ values = <<3, 0, 1>>
    /\ Gt(gini, 0, 1)

=============================================================================
